---- MODULE Spec2Model ----
(***************************************************************************)
(* The two API clients of the repository, TestRailClient (REST/JSON over   *)
(* requests) and TestLinkAPIClient (XML-RPC), with the TestLinkAPIWrapper  *)
(* convenience class, as one state machine.                                *)
(*                                                                         *)
(* A single-threaded caller invokes one client method at a time.  Every    *)
(* method is a frame on `stack`; a frame runs until it blocks on the       *)
(* transport or calls another method.  `wire` logs every request handed to *)
(* the transport during the current invocation, `replies` logs what the    *)
(* transport answered, in order; request j is in flight while              *)
(* Len(replies) < j <= Len(wire).  `ret` is the value returned or the      *)
(* exception raised by the frame that finished last; with an empty stack   *)
(* it is what the caller receives.                                         *)
(***************************************************************************)
EXTENDS Integers, Sequences, FiniteSets, TLC

VARIABLES rail, link, wrapper, call, stack, wire, replies, ret

vars == <<rail, link, wrapper, call, stack, wire, replies, ret>>

\* Longest list of records handed to a multi-record operation.
MaxLen == 3

(***************************************************************************)
(* Python values.  A str that the code inspects character by character     *)
(* (rstrip, lower) is a tuple of one-character strings; a str that the     *)
(* code only passes on or interpolates is a TLA+ string.  A dict is a      *)
(* record; a missing key is a missing field.                               *)
(***************************************************************************)
NoneValue == [kind |-> "none"]

Return(v) == [kind |-> "return", val |-> v]

Raise(e) == [kind |-> "raise", err |-> e]

RECURSIVE Join(_)
Join(cs) == IF cs = <<>> THEN "" ELSE Head(cs) \o Join(Tail(cs))

UpperCase == <<"A", "B", "C", "D", "E", "F", "G", "H", "I", "J", "K", "L", "M",
               "N", "O", "P", "Q", "R", "S", "T", "U", "V", "W", "X", "Y", "Z">>

LowerCase == <<"a", "b", "c", "d", "e", "f", "g", "h", "i", "j", "k", "l", "m",
               "n", "o", "p", "q", "r", "s", "t", "u", "v", "w", "x", "y", "z">>

\* str.lower() on one character.
LowerChar(c) ==
    IF \E i \in DOMAIN UpperCase : UpperCase[i] = c
    THEN LowerCase[CHOOSE i \in DOMAIN UpperCase : UpperCase[i] = c]
    ELSE c

\* str.lower()
Lower(cs) == [i \in DOMAIN cs |-> LowerChar(cs[i])]

\* str.rstrip(ch): drop every trailing occurrence of ch.
RECURSIVE RStrip(_, _)
RStrip(cs, ch) ==
    IF cs /= <<>> /\ cs[Len(cs)] = ch
    THEN RStrip(SubSeq(cs, 1, Len(cs) - 1), ch)
    ELSE cs

(***************************************************************************)
(* Inputs of the caller and answers of the transports.                     *)
(***************************************************************************)
BaseUrls == {<<"h">>, <<"h", "/">>, <<"h", "/", "/">>}

Emails == {"qa@example.com"}

ApiKeys == {"k1"}

RpcUrls == {"http://tl/xmlrpc.php"}

DevKeys == {"K", "K2"}

CaseIds == {101, 102}

RunIds == {42}

PlanIds == {10}

BuildIds == {5}

Notes == {"", "ok"}

Elapseds == {"", "1m 30s"}

\* The names of the five test statuses.
Passed == <<"p", "a", "s", "s", "e", "d">>

Failed == <<"f", "a", "i", "l", "e", "d">>

Blocked == <<"b", "l", "o", "c", "k", "e", "d">>

Untested == <<"u", "n", "t", "e", "s", "t", "e", "d">>

Retest == <<"r", "e", "t", "e", "s", "t">>

Statuses == {Passed, Failed, Blocked, Untested, Retest}

\* The status_id values add_result documents:
\* 1=Passed, 2=Blocked, 3=Untested, 4=Retest, 5=Failed
status_id_doc ==
    (Passed :> 1) @@ (Blocked :> 2) @@ (Untested :> 3) @@ (Retest :> 4) @@ (Failed :> 5)

\* The status values report_result documents:
\* 'p' (passed), 'f' (failed), 'b' (blocked)
status_doc == (Passed :> "p") @@ (Failed :> "f") @@ (Blocked :> "b")

Range(f) == {f[x] : x \in DOMAIN f}

\* status_id values a caller may pass to add_result: the five documented
\* ones and one that is not documented.
StatusIdArgs == Range(status_id_doc) \cup {9}

\* status values a caller may pass to report_result: the three documented
\* codes and one that is not documented.
StatusArgs == Range(status_doc) \cup {"x"}

\* status names a caller may pass to report_result_friendly: the five
\* status names, two of them also in another letter case, a name that is no
\* status, and the empty string.
FriendlyArgs ==
    Statuses \cup { <<"P", "a", "s", "s", "e", "d">>,
                    <<"F", "A", "I", "L", "E", "D">>,
                    <<"b", "o", "g", "u", "s">>, <<>> }

\* Result dicts for add_results_batch.
RailRecords ==
    { [test_id |-> 101, status_id |-> 1, comment |-> "ok", elapsed |-> "2s"],
      [test_id |-> 103, status_id |-> 5, comment |-> "timeout", elapsed |-> "30s"],
      [test_id |-> 104, status_id |-> 1, comment |-> "ok"] }

\* Result dicts for report_multiple_results: two of the documented format
\* (one without the optional notes), one without testcase_id, one without
\* status.
LinkRecords ==
    { [testcase_id |-> 101, status |-> "p", notes |-> "ok"],
      [testcase_id |-> 103, status |-> "f"],
      [status |-> "p", notes |-> "ok"],
      [testcase_id |-> 104, notes |-> "ok"] }

SeqsUpTo(S, n) == UNION {[1..k -> S] : k \in 0..n}

\* Decoded bodies the servers may answer with.
Responses == {[id |-> 1], [id |-> 2]}

\* HTTP status codes of a final response.
StatusCodes == {200, 201, 400, 404, 500}

FaultCodes == {-32601, 3000}

FaultStrings == {"bad"}

(***************************************************************************)
(* Construction.                                                           *)
(***************************************************************************)
TestRailClient_init(base_url, email, api_key) ==
    [base_url |-> RStrip(base_url, "/"),
     auth |-> <<email, api_key>>,
     headers |-> [Content_Type |-> "application/json"]]

TestLinkAPIClient_init(url, dev_key) ==
    [server |-> [url |-> url], dev_key |-> dev_key]

\* Faulty variant: the map has no entry for 'blocked'.
status_map_without_blocked ==
    (<<"p", "a", "s", "s", "e", "d">> :> "p")
    @@ (<<"f", "a", "i", "l", "e", "d">> :> "f")

status_map ==
    (<<"p", "a", "s", "s", "e", "d">> :> "p")
    @@ (<<"f", "a", "i", "l", "e", "d">> :> "f")
    @@ (<<"b", "l", "o", "c", "k", "e", "d">> :> "b")

TestLinkAPIWrapper_init(url, dev_key) ==
    [client |-> TestLinkAPIClient_init(url, dev_key),
     status_map |-> status_map]

Init ==
    /\ \E b \in BaseUrls, e \in Emails, k \in ApiKeys :
           rail = TestRailClient_init(b, e, k)
    /\ \E u \in RpcUrls, d \in DevKeys :
           /\ link = TestLinkAPIClient_init(u, d)
           /\ wrapper = TestLinkAPIWrapper_init(u, d)
    /\ call = [fn |-> "none"]
    /\ stack = <<>>
    /\ wire = <<>>
    /\ replies = <<>>
    /\ ret = NoneValue

(***************************************************************************)
(* Frames.                                                                 *)
(***************************************************************************)
Top == stack[Len(stack)]

Below == SubSeq(stack, 1, Len(stack) - 1)

Idle == stack = <<>>

Running(fn, pc) == stack /= <<>> /\ Top.fn = fn /\ Top.pc = pc

\* The frame on top moves to program position pc.
Goto(pc) == Append(Below, [Top EXCEPT !.pc = pc])

\* The caller starts a new invocation.
Enter(fn, args) ==
    /\ Idle
    /\ ret = NoneValue
    /\ call' = [fn |-> fn, args |-> args]
    /\ stack' = <<[fn |-> fn, pc |-> "start", a |-> args]>>
    /\ UNCHANGED <<rail, link, wrapper, wire, replies, ret>>

\* The caller has received the outcome of the invocation `call`.
Done == Idle /\ ret.kind /= "none"

\* The caller has taken the outcome and is ready for its next invocation.
caller_continue ==
    /\ Done
    /\ call' = [fn |-> "none"]
    /\ wire' = <<>>
    /\ replies' = <<>>
    /\ ret' = NoneValue
    /\ UNCHANGED <<rail, link, wrapper, stack>>

\* The frame on top hands request req to the transport and blocks.
Send(req) ==
    /\ wire' = Append(wire, req)
    /\ stack' = Append(Below, [Top EXCEPT !.pc = "await"] @@ [callno |-> Len(wire) + 1])
    /\ UNCHANGED <<rail, link, wrapper, call, replies, ret>>

\* The transport has answered the request the frame on top waits for.
Answered == Len(replies) >= Top.callno

Answer == replies[Top.callno]

\* The frame on top ends with outcome r.
Finish(r) ==
    /\ stack' = Below
    /\ ret' = r
    /\ UNCHANGED <<rail, link, wrapper, call, wire, replies>>

(***************************************************************************)
(* TestLinkAPIClient                                                       *)
(***************************************************************************)
\* One XML-RPC request: self.server.tl.<method>(params).
XmlRpcRequest(self, method, params) ==
    [proto |-> "xmlrpc", url |-> self.server.url, method |-> method,
     params |-> params]

\* except xmlrpc.client.Fault as fault: raise Exception(f"XML-RPC Fault: ...")
FaultException(faultCode, faultString) ==
    [type |-> "Exception",
     args |-> <<"XML-RPC Fault: " \o ToString(faultCode) \o " - " \o faultString>>]

\* Faulty variant: overwrite is left out of the data dict.
report_result_data_without_overwrite(a) ==
    [devKey |-> a.self.dev_key,
     testcaseid |-> a.testcase_id,
     testplanid |-> a.testplan_id,
     status |-> a.status,
     buildid |-> a.build_id,
     notes |-> a.notes]

\* Faulty variant: a status that is not documented is replaced by 'p'.
report_result_data_defaulting(a) ==
    [devKey |-> a.self.dev_key,
     testcaseid |-> a.testcase_id,
     testplanid |-> a.testplan_id,
     status |-> IF a.status \in Range(status_doc) THEN a.status ELSE "p",
     buildid |-> a.build_id,
     notes |-> a.notes,
     overwrite |-> TRUE]

\* The data dict report_result builds from its arguments.
report_result_data(a) ==
    [devKey |-> a.self.dev_key,
     testcaseid |-> a.testcase_id,
     testplanid |-> a.testplan_id,
     status |-> a.status,
     buildid |-> a.build_id,
     notes |-> a.notes,
     overwrite |-> TRUE]

\* Faulty variant: the Fault is raised again as it is.
report_result_outcome_raw(rep) ==
    CASE rep.kind = "result" -> Return(rep.val)
      [] rep.kind = "fault" -> Raise([type |-> "Fault", faultCode |-> rep.faultCode,
                                      faultString |-> rep.faultString])
      [] OTHER -> Raise(rep.err)

\* How report_result ends on the transport's answer rep.
report_result_outcome(rep) ==
    CASE rep.kind = "result" -> Return(rep.val)
      [] rep.kind = "fault" -> Raise(FaultException(rep.faultCode, rep.faultString))
      [] OTHER -> Raise(rep.err)

\* The caller invokes client.report_result(...).
Call_report_result ==
    \E tc \in CaseIds, tp \in PlanIds, b \in BuildIds, st \in StatusArgs, n \in Notes :
        Enter("report_result",
              [self |-> link, testcase_id |-> tc, testplan_id |-> tp,
               build_id |-> b, status |-> st, notes |-> n])

report_result_send ==
    /\ Running("report_result", "start")
    /\ Send(XmlRpcRequest(Top.a.self, "tl.reportTCResult", report_result_data(Top.a)))

report_result_recv ==
    /\ Running("report_result", "await")
    /\ Answered
    /\ Finish(report_result_outcome(Answer))

\* Faulty variant: every call is built from the first result dict.
report_multiple_results_args_first_record(f) ==
    LET result == f.a.results[1] IN
    IF "testcase_id" \notin DOMAIN result
    THEN Raise([type |-> "KeyError", args |-> <<"testcase_id">>])
    ELSE IF "status" \notin DOMAIN result
    THEN Raise([type |-> "KeyError", args |-> <<"status">>])
    ELSE Return([self |-> f.a.self,
                 testcase_id |-> result.testcase_id,
                 testplan_id |-> f.a.testplan_id,
                 build_id |-> f.a.build_id,
                 status |-> result.status,
                 notes |-> IF "notes" \in DOMAIN result THEN result.notes ELSE ""])

\* The keyword arguments of the report_result call made for one result
\* dict, or the KeyError raised while evaluating them.
report_multiple_results_args(f) ==
    LET result == f.a.results[f.i] IN
    IF "testcase_id" \notin DOMAIN result
    THEN Raise([type |-> "KeyError", args |-> <<"testcase_id">>])
    ELSE IF "status" \notin DOMAIN result
    THEN Raise([type |-> "KeyError", args |-> <<"status">>])
    ELSE Return([self |-> f.a.self,
                 testcase_id |-> result.testcase_id,
                 testplan_id |-> f.a.testplan_id,
                 build_id |-> f.a.build_id,
                 status |-> result.status,
                 notes |-> IF "notes" \in DOMAIN result THEN result.notes ELSE ""])

\* The caller invokes client.report_multiple_results(...).
Call_report_multiple_results ==
    \E tp \in PlanIds, b \in BuildIds, rs \in SeqsUpTo(LinkRecords, MaxLen) :
        /\ Enter("report_multiple_results",
                 [self |-> link, testplan_id |-> tp, build_id |-> b, results |-> rs])

\* responses = []
report_multiple_results_start ==
    /\ Running("report_multiple_results", "start")
    /\ stack' = Append(Below, [Top EXCEPT !.pc = "loop"] @@ [responses |-> <<>>, i |-> 1])
    /\ UNCHANGED <<rail, link, wrapper, call, wire, replies, ret>>

\* Faulty variant: every result dict is checked before the first call.
report_multiple_results_loop_eager ==
    /\ Running("report_multiple_results", "loop")
    /\ IF \E k \in DOMAIN Top.a.results :
              ~({"testcase_id", "status"} \subseteq DOMAIN Top.a.results[k])
       THEN Finish(Raise([type |-> "KeyError", args |-> <<"testcase_id">>]))
       ELSE IF Top.i > Len(Top.a.results)
       THEN Finish(Return(Top.responses))
       ELSE /\ stack' = Append(Goto("called"),
                               [fn |-> "report_result", pc |-> "start",
                                a |-> report_multiple_results_args(Top).val])
            /\ UNCHANGED <<rail, link, wrapper, call, wire, replies, ret>>

\* Faulty variant: the loop fires each request without waiting for its answer.
report_multiple_results_loop_async ==
    /\ Running("report_multiple_results", "loop")
    /\ IF Top.i > Len(Top.a.results)
       THEN Finish(Return(Top.responses))
       ELSE LET args == report_multiple_results_args(Top) IN
            IF args.kind = "raise"
            THEN Finish(args)
            ELSE /\ wire' = Append(wire, XmlRpcRequest(args.val.self, "tl.reportTCResult",
                                                       report_result_data(args.val)))
                 /\ stack' = Append(Below, [Top EXCEPT !.i = @ + 1])
                 /\ UNCHANGED <<rail, link, wrapper, call, replies, ret>>

\* for result in results: response = self.report_result(...)
\* and, after the last one, return responses.
report_multiple_results_loop ==
    /\ Running("report_multiple_results", "loop")
    /\ IF Top.i > Len(Top.a.results)
       THEN Finish(Return(Top.responses))
       ELSE LET args == report_multiple_results_args(Top) IN
            IF args.kind = "raise"
            THEN Finish(args)
            ELSE /\ stack' = Append(Goto("called"),
                                    [fn |-> "report_result", pc |-> "start", a |-> args.val])
                 /\ UNCHANGED <<rail, link, wrapper, call, wire, replies, ret>>

\* Faulty variant: responses.insert(0, response) in place of append.
report_multiple_results_resume_prepend ==
    /\ Running("report_multiple_results", "called")
    /\ ret.kind /= "none"
    /\ IF ret.kind = "return"
       THEN /\ stack' = Append(Below, [Top EXCEPT !.pc = "loop",
                                                  !.responses = <<ret.val>> \o @,
                                                  !.i = @ + 1])
            /\ ret' = NoneValue
            /\ UNCHANGED <<rail, link, wrapper, call, wire, replies>>
       ELSE Finish(ret)

\* Faulty variant: an exception of report_result is swallowed and the loop goes on.
report_multiple_results_resume_continue ==
    /\ Running("report_multiple_results", "called")
    /\ ret.kind /= "none"
    /\ stack' = Append(Below, [Top EXCEPT !.pc = "loop",
                                          !.responses = IF ret.kind = "return"
                                                        THEN Append(@, ret.val) ELSE @,
                                          !.i = @ + 1])
    /\ ret' = NoneValue
    /\ UNCHANGED <<rail, link, wrapper, call, wire, replies>>

\* Faulty variant: an exception of report_result ends the loop and the responses
\* collected so far are returned.
report_multiple_results_resume_partial ==
    /\ Running("report_multiple_results", "called")
    /\ ret.kind /= "none"
    /\ IF ret.kind = "return"
       THEN /\ stack' = Append(Below, [Top EXCEPT !.pc = "loop",
                                                  !.responses = Append(@, ret.val),
                                                  !.i = @ + 1])
            /\ ret' = NoneValue
            /\ UNCHANGED <<rail, link, wrapper, call, wire, replies>>
       ELSE Finish(Return(Top.responses))

\* report_result came back: responses.append(response) and go on, or let
\* its exception pass.
report_multiple_results_resume ==
    /\ Running("report_multiple_results", "called")
    /\ ret.kind /= "none"
    /\ IF ret.kind = "return"
       THEN /\ stack' = Append(Below, [Top EXCEPT !.pc = "loop",
                                                  !.responses = Append(@, ret.val),
                                                  !.i = @ + 1])
            /\ ret' = NoneValue
            /\ UNCHANGED <<rail, link, wrapper, call, wire, replies>>
       ELSE Finish(ret)

get_test_case_data(a) == [devKey |-> a.self.dev_key, testcaseid |-> a.testcase_id]

get_test_case_outcome(rep) ==
    CASE rep.kind = "result" -> Return(rep.val)
      [] rep.kind = "fault" -> Raise(FaultException(rep.faultCode, rep.faultString))
      [] OTHER -> Raise(rep.err)

Call_get_test_case ==
    \E tc \in CaseIds : Enter("get_test_case", [self |-> link, testcase_id |-> tc])

get_test_case_send ==
    /\ Running("get_test_case", "start")
    /\ Send(XmlRpcRequest(Top.a.self, "tl.getTestCase", get_test_case_data(Top.a)))

get_test_case_recv ==
    /\ Running("get_test_case", "await")
    /\ Answered
    /\ Finish(get_test_case_outcome(Answer))

get_test_plan_data(a) == [devKey |-> a.self.dev_key, testplanid |-> a.testplan_id]

\* Faulty variant: the handler is `except Exception`, so every failure of
\* the transport is turned into the fault text.
get_test_plan_outcome_catch_all(rep) ==
    CASE rep.kind = "result" -> Return(rep.val)
      [] rep.kind = "fault" -> Raise(FaultException(rep.faultCode, rep.faultString))
      [] OTHER -> Raise([type |-> "Exception", args |-> <<"XML-RPC Fault: error">>])

get_test_plan_outcome(rep) ==
    CASE rep.kind = "result" -> Return(rep.val)
      [] rep.kind = "fault" -> Raise(FaultException(rep.faultCode, rep.faultString))
      [] OTHER -> Raise(rep.err)

Call_get_test_plan ==
    \E tp \in PlanIds : Enter("get_test_plan", [self |-> link, testplan_id |-> tp])

get_test_plan_send ==
    /\ Running("get_test_plan", "start")
    /\ Send(XmlRpcRequest(Top.a.self, "tl.getTestPlanByID", get_test_plan_data(Top.a)))

get_test_plan_recv ==
    /\ Running("get_test_plan", "await")
    /\ Answered
    /\ Finish(get_test_plan_outcome(Answer))

(***************************************************************************)
(* TestLinkAPIWrapper                                                      *)
(***************************************************************************)
\* dict.get(key, default)
DictGet(d, key, default) == IF key \in DOMAIN d THEN d[key] ELSE default

\* Faulty variant: the lookup is made with the name as given, not lower-cased.
status_code_without_lower(self, status) == DictGet(self.status_map, status, "p")

\* Faulty variant: the default is 'f'.
status_code_default_f(self, status) == DictGet(self.status_map, Lower(status), "f")

\* status_code = self.status_map.get(status.lower(), 'p')
status_code(self, status) == DictGet(self.status_map, Lower(status), "p")

Call_report_result_friendly ==
    \E tc \in CaseIds, tp \in PlanIds, b \in BuildIds, st \in FriendlyArgs, n \in Notes :
        Enter("report_result_friendly",
              [self |-> wrapper, testcase_id |-> tc, testplan_id |-> tp,
               build_id |-> b, status |-> st, notes |-> n])

\* The keyword arguments of the wrapper's report_result call.
report_result_friendly_args(a) ==
    [self |-> a.self.client,
     testcase_id |-> a.testcase_id,
     testplan_id |-> a.testplan_id,
     build_id |-> a.build_id,
     status |-> status_code(a.self, a.status),
     notes |-> a.notes]

\* Faulty variant: the lookup is status_map.setdefault(status.lower(), 'p'),
\* which stores the default in the wrapper's map.
report_result_friendly_start_setdefault ==
    /\ Running("report_result_friendly", "start")
    /\ stack' = Append(Goto("called"),
                       [fn |-> "report_result", pc |-> "start",
                        a |-> report_result_friendly_args(Top.a)])
    /\ wrapper' = [wrapper EXCEPT !.status_map =
                       @ @@ (Lower(Top.a.status) :> "p")]
    /\ UNCHANGED <<rail, link, call, wire, replies, ret>>

report_result_friendly_start ==
    /\ Running("report_result_friendly", "start")
    /\ stack' = Append(Goto("called"),
                       [fn |-> "report_result", pc |-> "start",
                        a |-> report_result_friendly_args(Top.a)])
    /\ UNCHANGED <<rail, link, wrapper, call, wire, replies, ret>>

\* return self.client.report_result(...)
report_result_friendly_resume ==
    /\ Running("report_result_friendly", "called")
    /\ ret.kind /= "none"
    /\ Finish(ret)

\* The XML-RPC transport (xmlrpc.client.ServerProxy) answers the request
\* in flight: a decoded result, a protocol fault, or a failure below the
\* protocol.
XmlRpcInFlight ==
    /\ Len(replies) < Len(wire)
    /\ wire[Len(replies) + 1].proto = "xmlrpc"

xmlrpc_result ==
    /\ XmlRpcInFlight
    /\ \E v \in Responses : replies' = Append(replies, [kind |-> "result", val |-> v])
    /\ UNCHANGED <<rail, link, wrapper, call, stack, wire, ret>>

xmlrpc_fault ==
    /\ XmlRpcInFlight
    /\ \E c \in FaultCodes, s \in FaultStrings :
           replies' = Append(replies, [kind |-> "fault", faultCode |-> c, faultString |-> s])
    /\ UNCHANGED <<rail, link, wrapper, call, stack, wire, ret>>

xmlrpc_error ==
    /\ XmlRpcInFlight
    /\ replies' = Append(replies, [kind |-> "error",
                                   err |-> [type |-> "ProtocolError", errcode |-> 503]])
    /\ UNCHANGED <<rail, link, wrapper, call, stack, wire, ret>>


(***************************************************************************)
(* TestRailClient                                                          *)
(***************************************************************************)
\* f'{self.base_url}/index.php?/api/v2/<method>/<id>'
Endpoint(self, method, id) ==
    Join(self.base_url) \o "/index.php?/api/v2/" \o method \o "/" \o ToString(id)

\* requests.post(endpoint, auth=self.auth, headers=self.headers, json=payload)
HttpPost(self, endpoint, payload) ==
    [proto |-> "http", method |-> "POST", url |-> endpoint, auth |-> self.auth,
     headers |-> self.headers, json |-> payload]

\* requests.get(endpoint, auth=self.auth, headers=self.headers)
HttpGet(self, endpoint) ==
    [proto |-> "http", method |-> "GET", url |-> endpoint, auth |-> self.auth,
     headers |-> self.headers]

\* response.raise_for_status(): HTTPError for a 4xx or 5xx status.
raise_for_status(response) ==
    IF 400 <= response.status_code /\ response.status_code < 600
    THEN Raise([type |-> "HTTPError", status_code |-> response.status_code])
    ELSE NoneValue

\* Faulty variant: the test id is also put into the body.
add_result_payload_with_test_id(a) ==
    [test_id |-> a.test_id, status_id |-> a.status_id, comment |-> a.comment,
     elapsed |-> a.elapsed]

add_result_payload(a) ==
    [status_id |-> a.status_id, comment |-> a.comment, elapsed |-> a.elapsed]

\* response.raise_for_status(); return response.json()
add_result_outcome(rep) ==
    IF rep.kind = "error" THEN Raise(rep.err)
    ELSE IF raise_for_status(rep).kind = "raise" THEN raise_for_status(rep)
    ELSE Return(rep.json)

Call_add_result ==
    \E t \in CaseIds, st \in StatusIdArgs, c \in Notes, e \in Elapseds :
        Enter("add_result",
              [self |-> rail, test_id |-> t, status_id |-> st, comment |-> c,
               elapsed |-> e])

add_result_send ==
    /\ Running("add_result", "start")
    /\ Send(HttpPost(Top.a.self, Endpoint(Top.a.self, "add_result", Top.a.test_id),
                     add_result_payload(Top.a)))

add_result_recv ==
    /\ Running("add_result", "await")
    /\ Answered
    /\ Finish(add_result_outcome(Answer))

\* Faulty variant: the payload is built from results[1:].
add_results_batch_payload_skip_first(a) ==
    [results |-> IF a.results = <<>> THEN <<>> ELSE Tail(a.results)]

add_results_batch_payload(a) == [results |-> a.results]

\* Faulty variant: raise_for_status() is not called.
add_results_batch_outcome_unchecked(rep) ==
    IF rep.kind = "error" THEN Raise(rep.err) ELSE Return(rep.json)

add_results_batch_outcome(rep) ==
    IF rep.kind = "error" THEN Raise(rep.err)
    ELSE IF raise_for_status(rep).kind = "raise" THEN raise_for_status(rep)
    ELSE Return(rep.json)

Call_add_results_batch ==
    \E r \in RunIds, rs \in SeqsUpTo(RailRecords, MaxLen) :
        Enter("add_results_batch", [self |-> rail, run_id |-> r, results |-> rs])

add_results_batch_send ==
    /\ Running("add_results_batch", "start")
    /\ Send(HttpPost(Top.a.self, Endpoint(Top.a.self, "add_results", Top.a.run_id),
                     add_results_batch_payload(Top.a)))

add_results_batch_recv ==
    /\ Running("add_results_batch", "await")
    /\ Answered
    /\ Finish(add_results_batch_outcome(Answer))

get_test_outcome(rep) ==
    IF rep.kind = "error" THEN Raise(rep.err)
    ELSE IF raise_for_status(rep).kind = "raise" THEN raise_for_status(rep)
    ELSE Return(rep.json)

Call_get_test ==
    \E t \in CaseIds : Enter("get_test", [self |-> rail, test_id |-> t])

get_test_send ==
    /\ Running("get_test", "start")
    /\ Send(HttpGet(Top.a.self, Endpoint(Top.a.self, "get_test", Top.a.test_id)))

\* Faulty variant: a failed GET is tried a second time.
get_test_recv_retry ==
    /\ Running("get_test", "await")
    /\ Answered
    /\ IF get_test_outcome(Answer).kind = "raise" /\ Len(wire) < 2
       THEN /\ wire' = Append(wire, wire[Top.callno])
            /\ stack' = Append(Below, [Top EXCEPT !.callno = Len(wire) + 1])
            /\ UNCHANGED <<rail, link, wrapper, call, replies, ret>>
       ELSE Finish(get_test_outcome(Answer))

get_test_recv ==
    /\ Running("get_test", "await")
    /\ Answered
    /\ Finish(get_test_outcome(Answer))

get_run_outcome(rep) ==
    IF rep.kind = "error" THEN Raise(rep.err)
    ELSE IF raise_for_status(rep).kind = "raise" THEN raise_for_status(rep)
    ELSE Return(rep.json)

Call_get_run ==
    \E r \in RunIds : Enter("get_run", [self |-> rail, run_id |-> r])

get_run_send ==
    /\ Running("get_run", "start")
    /\ Send(HttpGet(Top.a.self, Endpoint(Top.a.self, "get_run", Top.a.run_id)))

get_run_recv ==
    /\ Running("get_run", "await")
    /\ Answered
    /\ Finish(get_run_outcome(Answer))

\* The HTTP transport (requests) answers the request in flight: a response
\* with a status code and a decodable body, or an exception because no
\* response was obtained.
HttpInFlight ==
    /\ Len(replies) < Len(wire)
    /\ wire[Len(replies) + 1].proto = "http"

http_response ==
    /\ HttpInFlight
    /\ \E c \in StatusCodes, v \in Responses :
           replies' = Append(replies, [kind |-> "response", status_code |-> c, json |-> v])
    /\ UNCHANGED <<rail, link, wrapper, call, stack, wire, ret>>

http_error ==
    /\ HttpInFlight
    /\ replies' = Append(replies, [kind |-> "error", err |-> [type |-> "ConnectionError"]])
    /\ UNCHANGED <<rail, link, wrapper, call, stack, wire, ret>>

(***************************************************************************)
(* The two report_automated_test_results examples: each constructs its own *)
(* client, builds a literal list of four results and reports it.           *)
(***************************************************************************)
testrail_example_base_url ==
    <<"h", "t", "t", "p", "s", ":", "/", "/", "e", "x", "a", "m", "p", "l",
      "e", ".", "t", "e", "s", "t", "r", "a", "i", "l", ".", "i", "o">>

testrail_example_client ==
    TestRailClient_init(testrail_example_base_url, "automation@example.com",
                        "your_api_key_here")

testrail_example_test_results ==
    << [test_id |-> 101, status_id |-> 1, comment |-> "Login test passed",
        elapsed |-> "2s"],
       [test_id |-> 102, status_id |-> 1, comment |-> "Registration test passed",
        elapsed |-> "3s"],
       [test_id |-> 103, status_id |-> 5, comment |-> "Payment test failed: timeout",
        elapsed |-> "30s"],
       [test_id |-> 104, status_id |-> 1, comment |-> "Logout test passed",
        elapsed |-> "1s"] >>

Call_testrail_report_automated_test_results ==
    Enter("testrail.report_automated_test_results", <<>>)

\* response = client.add_results_batch(run_id, test_results)
testrail_report_automated_test_results_start ==
    /\ Running("testrail.report_automated_test_results", "start")
    /\ stack' = Append(Goto("called"),
                       [fn |-> "add_results_batch", pc |-> "start",
                        a |-> [self |-> testrail_example_client, run_id |-> 42,
                               results |-> testrail_example_test_results]])
    /\ UNCHANGED <<rail, link, wrapper, call, wire, replies, ret>>

\* print(...); return response
testrail_report_automated_test_results_resume ==
    /\ Running("testrail.report_automated_test_results", "called")
    /\ ret.kind /= "none"
    /\ Finish(ret)

testlink_example_client ==
    TestLinkAPIClient_init("http://example.com/lib/api/xmlrpc/v1/xmlrpc.php",
                           "your_dev_key_here")

testlink_example_test_results ==
    << [testcase_id |-> 101, status |-> "p", notes |-> "Login test passed"],
       [testcase_id |-> 102, status |-> "p", notes |-> "Registration test passed"],
       [testcase_id |-> 103, status |-> "f", notes |-> "Payment test failed: timeout"],
       [testcase_id |-> 104, status |-> "p", notes |-> "Logout test passed"] >>

Call_testlink_report_automated_test_results ==
    Enter("testlink.report_automated_test_results", <<>>)

\* responses = client.report_multiple_results(testplan_id, build_id, test_results)
testlink_report_automated_test_results_start ==
    /\ Running("testlink.report_automated_test_results", "start")
    /\ stack' = Append(Goto("called"),
                       [fn |-> "report_multiple_results", pc |-> "start",
                        a |-> [self |-> testlink_example_client, testplan_id |-> 10,
                               build_id |-> 5,
                               results |-> testlink_example_test_results]])
    /\ UNCHANGED <<rail, link, wrapper, call, wire, replies, ret>>

\* print(...); return responses
testlink_report_automated_test_results_resume ==
    /\ Running("testlink.report_automated_test_results", "called")
    /\ ret.kind /= "none"
    /\ Finish(ret)

(***************************************************************************)
(* The system.                                                             *)
(***************************************************************************)
Next ==
    \/ Call_add_result
    \/ add_result_send
    \/ add_result_recv
    \/ Call_add_results_batch
    \/ add_results_batch_send
    \/ add_results_batch_recv
    \/ Call_get_test
    \/ get_test_send
    \/ get_test_recv
    \/ Call_get_run
    \/ get_run_send
    \/ get_run_recv
    \/ Call_report_result
    \/ report_result_send
    \/ report_result_recv
    \/ Call_report_multiple_results
    \/ report_multiple_results_start
    \/ report_multiple_results_loop
    \/ report_multiple_results_resume
    \/ Call_get_test_case
    \/ get_test_case_send
    \/ get_test_case_recv
    \/ Call_get_test_plan
    \/ get_test_plan_send
    \/ get_test_plan_recv
    \/ Call_report_result_friendly
    \/ report_result_friendly_start
    \/ report_result_friendly_resume
    \/ http_response
    \/ http_error
    \/ xmlrpc_result
    \/ xmlrpc_fault
    \/ xmlrpc_error
    \/ Call_testrail_report_automated_test_results
    \/ testrail_report_automated_test_results_start
    \/ testrail_report_automated_test_results_resume
    \/ Call_testlink_report_automated_test_results
    \/ testlink_report_automated_test_results_start
    \/ testlink_report_automated_test_results_resume
    \/ caller_continue

Spec == Init /\ [][Next]_vars


(***************************************************************************)
(* Properties.                                                             *)
(***************************************************************************)
\* A transport answer that is a failure of the call.
FailedReply(rep) ==
    \/ rep.kind \in {"fault", "error"}
    \/ rep.kind = "response" /\ ~(rep.status_code \in 200..299)

\* Result dicts of the documented format of report_multiple_results.
Documented(results) ==
    \A i \in DOMAIN results : {"testcase_id", "status"} \subseteq DOMAIN results[i]

\* C1: add_results_batch on any list of n results (n = 0 included) hands
\* exactly one request to the transport, a POST to the add_results endpoint
\* of the run, and the 'results' field of its body has length n and holds
\* the input dicts in input order.
C1_BatchIsOnePost ==
    call.fn = "add_results_batch" =>
        /\ Len(wire) <= 1
        /\ (Done \/ Running("add_results_batch", "await")) => Len(wire) = 1
        /\ \A j \in DOMAIN wire :
               /\ wire[j].method = "POST"
               /\ wire[j].url = Endpoint(rail, "add_results", call.args.run_id)
               /\ Len(wire[j].json.results) = Len(call.args.results)
               /\ \A i \in DOMAIN call.args.results :
                      wire[j].json.results[i] = call.args.results[i]

C1_Witness ==
    /\ Done
    /\ call.fn = "add_results_batch"
    /\ Len(call.args.results) >= 2
    /\ call.args.results[1] /= call.args.results[2]
    /\ Len(wire) = 1
    /\ wire[1].json.results = call.args.results

\* The exception report_result raises on a failed transport answer.
C2_RaisedFor(rep) ==
    IF rep.kind = "fault"
    THEN [type |-> "Exception",
          args |-> <<"XML-RPC Fault: " \o ToString(rep.faultCode) \o " - "
                     \o rep.faultString>>]
    ELSE rep.err

\* C2: report_multiple_results on n result dicts of the documented format
\* issues the transport calls in input order, call i carrying record i, n of
\* them when none fails; once call k has failed no further call is issued,
\* and the exception report_result raised for call k is what the caller
\* receives, unchanged.
C2_OneCallPerRecordAbortOnFirstFailure ==
    (call.fn = "report_multiple_results" /\ Documented(call.args.results)) =>
        LET results == call.args.results IN
        /\ Len(wire) <= Len(results)
        /\ \A j \in DOMAIN wire :
               /\ wire[j].method = "tl.reportTCResult"
               /\ wire[j].params.testcaseid = results[j].testcase_id
               /\ wire[j].params.status = results[j].status
        /\ \A j \in DOMAIN replies : FailedReply(replies[j]) => j = Len(wire)
        /\ Done =>
               IF \E j \in DOMAIN replies : FailedReply(replies[j])
               THEN ret = Raise(C2_RaisedFor(replies[Len(replies)]))
               ELSE Len(wire) = Len(results) /\ ret.kind = "return"

C2_Witness ==
    /\ Done
    /\ call.fn = "report_multiple_results"
    /\ Documented(call.args.results)
    /\ Len(call.args.results) = 3
    /\ Len(wire) = 2
    /\ FailedReply(replies[2])
    /\ ret.kind = "raise"

\* C3: when a call inside report_multiple_results fails, the operation
\* ends with an exception and returns no list: the responses of the calls
\* before the failed one are not delivered, although every one of those
\* calls was issued and answered with a result by the server.
C3_NoPartialListOnFailure ==
    (/\ Done
     /\ call.fn = "report_multiple_results"
     /\ \E j \in DOMAIN replies : FailedReply(replies[j])) =>
        LET k == Len(replies) IN
        /\ ret.kind = "raise"
        /\ "val" \notin DOMAIN ret
        /\ Len(wire) = k
        /\ \A j \in 1..(k - 1) :
               /\ replies[j].kind = "result"
               /\ wire[j].params.testcaseid = call.args.results[j].testcase_id

C3_Witness ==
    /\ Done
    /\ call.fn = "report_multiple_results"
    /\ Len(replies) = 3
    /\ replies[1].kind = "result"
    /\ replies[2].kind = "result"
    /\ replies[3].kind = "fault"
    /\ ret.kind = "raise"

\* C4: during report_multiple_results at most one transport call is in
\* flight: every call but the last issued has been answered, and the
\* operation has returned only when every issued call has been answered.
C4_Serial ==
    call.fn = "report_multiple_results" =>
        /\ Len(replies) <= Len(wire)
        /\ Len(wire) - Len(replies) <= 1
        /\ Idle => Len(replies) = Len(wire)

C4_Witness ==
    /\ call.fn = "report_multiple_results"
    /\ Len(wire) = 2
    /\ Len(replies) = 1
    /\ Running("report_result", "await")


\* C5, as stated: every one of the five statuses has a defined encoding in
\* both protocols.
C5_EveryStatusEncodedInBothProtocols ==
    (call.fn = "report_result_friendly" /\ call.args.status \in Statuses) =>
        /\ call.args.status \in DOMAIN status_id_doc
        /\ call.args.status \in DOMAIN call.args.self.status_map

\* C5, amended: the REST encoding is defined for all five statuses (Passed
\* 1, Blocked 2, Untested 3, Retest 4, Failed 5); the RPC encoding is
\* defined for Passed, Failed and Blocked only ('p', 'f', 'b'); Untested and
\* Retest have no entry in the wrapper's map and are sent with the default
\* 'p'.  For a given status the code sent is always the same one, and no
\* code other than 'p', 'f', 'b' is sent.
C5_EncodingTables ==
    /\ DOMAIN status_id_doc = Statuses
    /\ status_id_doc[Passed] = 1 /\ status_id_doc[Blocked] = 2
    /\ status_id_doc[Untested] = 3 /\ status_id_doc[Retest] = 4
    /\ status_id_doc[Failed] = 5
    /\ (call.fn = "report_result_friendly" /\ call.args.status \in Statuses) =>
           LET name == call.args.status IN
           /\ name \in DOMAIN call.args.self.status_map
                  <=> name \in {Passed, Failed, Blocked}
           /\ \A j \in DOMAIN wire :
                  wire[j].params.status =
                      CASE name = Passed -> "p"
                        [] name = Failed -> "f"
                        [] name = Blocked -> "b"
                        [] OTHER -> "p"

C5_Witness ==
    /\ call.fn = "report_result_friendly"
    /\ call.args.status = Untested
    /\ Len(wire) = 1
    /\ wire[1].params.status = "p"

\* C6, as stated: add_result and report_result, called with a status that
\* has no documented encoding, fail before any transport call is issued.
C6_UnmappedStatusFailsBeforeSending ==
    /\ (call.fn = "add_result" /\ call.args.status_id \notin Range(status_id_doc)) =>
           /\ wire = <<>>
           /\ Done => ret.kind = "raise"
    /\ (call.fn = "report_result" /\ call.args.status \notin Range(status_doc)) =>
           /\ wire = <<>>
           /\ Done => ret.kind = "raise"

\* C6, amended: outside the friendly wrapper the status is not checked and
\* not replaced: add_result and report_result issue their one transport
\* call for every status value, documented or not, and the request carries
\* the caller's value unchanged.
C6_StatusSentAsGiven ==
    /\ call.fn = "add_result" =>
           /\ \A j \in DOMAIN wire : wire[j].json.status_id = call.args.status_id
           /\ Done => Len(wire) = 1
    /\ call.fn = "report_result" =>
           /\ \A j \in DOMAIN wire : wire[j].params.status = call.args.status
           /\ Done => Len(wire) = 1

C6_Witness ==
    /\ Done
    /\ call.fn = "report_result"
    /\ call.args.status = "x"
    /\ Len(wire) = 1
    /\ wire[1].params.status = "x"
    /\ ret.kind = "return"

\* Names that are no key of the wrapper's map in any letter case.
C7_Unrecognized == {<<"b", "o", "g", "u", "s">>, <<>>, Untested, Retest}

\* C7: report_result_friendly sends 'passed', 'failed', 'blocked' as 'p',
\* 'f', 'b' and every unrecognized name as 'p', without raising on the
\* name; it makes exactly one report_result call, whose request carries
\* that code and the other arguments unchanged, and ends as that call ends.
C7_FriendlyMapsAndDelegates ==
    (call.fn = "report_result_friendly"
     /\ call.args.status \in {Passed, Failed, Blocked} \cup C7_Unrecognized) =>
        LET a == call.args IN
        /\ Len(wire) <= 1
        /\ \A j \in DOMAIN wire :
               wire[j].params =
                   [devKey |-> wrapper.client.dev_key,
                    testcaseid |-> a.testcase_id,
                    testplanid |-> a.testplan_id,
                    status |-> CASE a.status = Passed -> "p"
                                 [] a.status = Failed -> "f"
                                 [] a.status = Blocked -> "b"
                                 [] OTHER -> "p",
                    buildid |-> a.build_id,
                    notes |-> a.notes,
                    overwrite |-> TRUE]
        /\ Done =>
               /\ Len(wire) = 1
               /\ Len(replies) = 1
               /\ replies[1].kind = "result" => ret = Return(replies[1].val)
               /\ replies[1].kind /= "result" => ret.kind = "raise"

C7_Witness ==
    /\ Done
    /\ call.fn = "report_result_friendly"
    /\ call.args.status = <<"b", "o", "g", "u", "s">>
    /\ wire[1].params.status = "p"
    /\ ret.kind = "return"

\* The three methods of TestLinkAPIClient that make one XML-RPC call.
RpcSingleOps == {"report_result", "get_test_case", "get_test_plan"}

\* The transport answered the first call of the invocation with a fault.
FirstAnswerIsFault == Len(replies) >= 1 /\ replies[1].kind = "fault"

\* C8, as stated: on a protocol fault the method ends with an error of a
\* fault type of its own that carries the fault's code and message as
\* separate fields.
C8_TypedFaultWithSeparateFields ==
    (call.fn \in RpcSingleOps /\ FirstAnswerIsFault /\ Done) =>
        /\ ret.kind = "raise"
        /\ ret.err.type = "RpcFault"
        /\ {"code", "message"} \subseteq DOMAIN ret.err
        /\ ret.err.code = replies[1].faultCode
        /\ ret.err.message = replies[1].faultString

\* C8, amended: on a protocol fault report_result, get_test_case and
\* get_test_plan each end with a plain Exception whose only argument is the
\* text "XML-RPC Fault: <code> - <message>" built from the fault's code and
\* message; the transport's Fault itself never reaches the caller and the
\* call is not issued again.
C8_FaultBecomesExceptionText ==
    (call.fn \in RpcSingleOps /\ FirstAnswerIsFault) =>
        /\ Len(wire) = 1
        /\ Done =>
               /\ ret.kind = "raise"
               /\ ret.err.type = "Exception"
               /\ ret.err.args = <<"XML-RPC Fault: " \o ToString(replies[1].faultCode)
                                   \o " - " \o replies[1].faultString>>

C8_Witness ==
    /\ Done
    /\ call.fn = "get_test_case"
    /\ FirstAnswerIsFault
    /\ replies[1].faultCode = 3000
    /\ ret.err.args = <<"XML-RPC Fault: 3000 - bad">>

\* The four methods of TestRailClient.
RestOps == {"add_result", "add_results_batch", "get_test", "get_run"}

SingleOps == {"add_result", "get_test", "get_run"} \cup RpcSingleOps

\* C10: nothing is retried.  A single-record or read method issues exactly
\* one transport call, whether that call succeeds or fails, and in every
\* method a transport call that failed is the last one issued.
C10_NoRetry ==
    /\ call.fn \in SingleOps =>
           /\ Len(wire) <= 1
           /\ Done => Len(wire) = 1 /\ Len(replies) = 1
    /\ \A j \in DOMAIN replies : FailedReply(replies[j]) => j = Len(wire)

C10_Witness ==
    /\ Done
    /\ call.fn = "get_test"
    /\ Len(wire) = 1
    /\ FailedReply(replies[1])
    /\ ret.kind = "raise"

\* C11: add_result sends a POST to the add_result endpoint of the given
\* test id, and the body is exactly the three fields status_id, comment and
\* elapsed with the caller's values; the test id is in the URL only and the
\* body has no other field.
C11_AddResultRequest ==
    call.fn = "add_result" =>
        \A j \in DOMAIN wire :
            /\ wire[j].method = "POST"
            /\ wire[j].url = "h/index.php?/api/v2/add_result/"
                                 \o ToString(call.args.test_id)
            /\ DOMAIN wire[j].json = {"status_id", "comment", "elapsed"}
            /\ wire[j].json.status_id = call.args.status_id
            /\ wire[j].json.comment = call.args.comment
            /\ wire[j].json.elapsed = call.args.elapsed

C11_Witness ==
    /\ call.fn = "add_result"
    /\ call.args.test_id = 101
    /\ Len(wire) = 1
    /\ wire[1].url = "h/index.php?/api/v2/add_result/101"
    /\ wire[1].json = [status_id |-> 1, comment |-> "ok", elapsed |-> "1m 30s"]

\* C12: report_result invokes the one remote method tl.reportTCResult with
\* a parameter structure of exactly the seven fields devKey, testcaseid,
\* testplanid, status, buildid, notes and overwrite: devKey is the key the
\* client was constructed with, overwrite is true for every input, and the
\* other five are the caller's arguments unchanged.
C12_ReportResultRequest ==
    call.fn = "report_result" =>
        \A j \in DOMAIN wire :
            /\ wire[j].method = "tl.reportTCResult"
            /\ DOMAIN wire[j].params =
                   {"devKey", "testcaseid", "testplanid", "status", "buildid",
                    "notes", "overwrite"}
            /\ wire[j].params.devKey = link.dev_key
            /\ wire[j].params.devKey \in DevKeys
            /\ wire[j].params.overwrite = TRUE
            /\ wire[j].params.testcaseid = call.args.testcase_id
            /\ wire[j].params.testplanid = call.args.testplan_id
            /\ wire[j].params.status = call.args.status
            /\ wire[j].params.buildid = call.args.build_id
            /\ wire[j].params.notes = call.args.notes

C12_Witness ==
    /\ call.fn = "report_result"
    /\ Len(wire) = 1
    /\ wire[1].params = [devKey |-> "K", testcaseid |-> 101, testplanid |-> 10,
                         status |-> "p", buildid |-> 5, notes |-> "ok",
                         overwrite |-> TRUE]

\* The four logical results both examples report: target id and status.
C13_Logical ==
    << [id |-> 101, status |-> Passed], [id |-> 102, status |-> Passed],
       [id |-> 103, status |-> Failed], [id |-> 104, status |-> Passed] >>

\* The (target id, status) pairs of a list of REST result dicts.
C13_RestPairs(results) ==
    [i \in DOMAIN results |-> <<results[i].test_id, results[i].status_id>>]

\* C13: both reporting paths deliver the records they are given in input
\* order: add_results_batch all n of them in its one transport call,
\* report_multiple_results record j in its call j, n calls when no call
\* fails (and the first j records, in order, up to a failing call).  The two
\* examples deliver the same four logical results, each status in the
\* encoding of its protocol: statuses [1, 1, 5, 1] in one REST call and
\* ['p', 'p', 'f', 'p'] in four RPC calls.
C13_SameResultsOnBothPaths ==
    /\ call.fn = "add_results_batch" =>
           /\ Len(wire) <= 1
           /\ \A j \in DOMAIN wire :
                  C13_RestPairs(wire[j].json.results) = C13_RestPairs(call.args.results)
    /\ (call.fn = "report_multiple_results" /\ Documented(call.args.results)) =>
           /\ Len(wire) <= Len(call.args.results)
           /\ \A j \in DOMAIN wire :
                  <<wire[j].params.testcaseid, wire[j].params.status>>
                      = <<call.args.results[j].testcase_id, call.args.results[j].status>>
           /\ (Done /\ \A j \in DOMAIN replies : ~FailedReply(replies[j])) =>
                  Len(wire) = Len(call.args.results)
    /\ call.fn = "testrail.report_automated_test_results" =>
           /\ Len(wire) <= 1
           /\ Done => Len(wire) = 1
           /\ \A j \in DOMAIN wire :
                  C13_RestPairs(wire[j].json.results) =
                      [i \in DOMAIN C13_Logical |->
                          <<C13_Logical[i].id, status_id_doc[C13_Logical[i].status]>>]
    /\ call.fn = "testlink.report_automated_test_results" =>
           /\ Len(wire) <= Len(C13_Logical)
           /\ \A j \in DOMAIN wire :
                  <<wire[j].params.testcaseid, wire[j].params.status>>
                      = <<C13_Logical[j].id, status_doc[C13_Logical[j].status]>>
           /\ (Done /\ \A j \in DOMAIN replies : ~FailedReply(replies[j])) =>
                  Len(wire) = Len(C13_Logical)

C13_Witness ==
    /\ Done
    /\ call.fn = "testlink.report_automated_test_results"
    /\ Len(wire) = 4
    /\ [j \in 1..4 |-> wire[j].params.status] = <<"p", "p", "f", "p">>
    /\ ret.kind = "return"

\* Every request on the wire is the one its method builds from the
\* caller's arguments and the client's configuration alone.
C14_RequestFromArgsAndConfig ==
    /\ call.fn \in {"add_result", "add_results_batch", "get_test", "get_run"} =>
           \A j \in DOMAIN wire :
               wire[j].auth = rail.auth /\ wire[j].headers = rail.headers
    /\ call.fn = "get_test" =>
           \A j \in DOMAIN wire :
               wire[j] = [proto |-> "http", method |-> "GET",
                          url |-> Join(rail.base_url) \o "/index.php?/api/v2/get_test/"
                                      \o ToString(call.args.test_id),
                          auth |-> rail.auth, headers |-> rail.headers]
    /\ call.fn = "get_run" =>
           \A j \in DOMAIN wire :
               wire[j] = [proto |-> "http", method |-> "GET",
                          url |-> Join(rail.base_url) \o "/index.php?/api/v2/get_run/"
                                      \o ToString(call.args.run_id),
                          auth |-> rail.auth, headers |-> rail.headers]
    /\ call.fn = "get_test_case" =>
           \A j \in DOMAIN wire :
               wire[j] = [proto |-> "xmlrpc", url |-> link.server.url,
                          method |-> "tl.getTestCase",
                          params |-> [devKey |-> link.dev_key,
                                      testcaseid |-> call.args.testcase_id]]
    /\ call.fn = "get_test_plan" =>
           \A j \in DOMAIN wire :
               wire[j] = [proto |-> "xmlrpc", url |-> link.server.url,
                          method |-> "tl.getTestPlanByID",
                          params |-> [devKey |-> link.dev_key,
                                      testplanid |-> call.args.testplan_id]]
    /\ call.fn \in {"report_result", "report_multiple_results"} =>
           \A j \in DOMAIN wire :
               wire[j].url = link.server.url /\ wire[j].params.devKey = link.dev_key
    /\ call.fn = "report_result_friendly" =>
           \A j \in DOMAIN wire :
               /\ wire[j].url = wrapper.client.server.url
               /\ wire[j].params.devKey = wrapper.client.dev_key
               /\ wire[j].params.status \in
                      Range(wrapper.status_map) \cup {"p"}

\* The configuration is the one the constructors set.
C14_AsConstructed ==
    /\ rail.base_url = <<"h">>
    /\ rail.auth \in Emails \X ApiKeys
    /\ rail.headers = [Content_Type |-> "application/json"]
    /\ link.server.url \in RpcUrls
    /\ link.dev_key \in DevKeys
    /\ wrapper.client = link
    /\ DOMAIN wrapper.status_map = {Passed, Failed, Blocked}

\* C14: the configuration of the clients and of the wrapper is set at
\* construction and no step of any operation changes it, whether the
\* operation succeeds or fails; every request is built from the arguments
\* of its operation and that configuration only.
C14_ConfigurationIsImmutable ==
    /\ [][rail' = rail /\ link' = link /\ wrapper' = wrapper]_vars
    /\ [](C14_AsConstructed /\ C14_RequestFromArgsAndConfig)

C14_Witness ==
    /\ Done
    /\ call.fn = "report_result_friendly"
    /\ call.args.status = <<"b", "o", "g", "u", "s">>
    /\ ret.kind = "raise"
    /\ DOMAIN wrapper.status_map = {Passed, Failed, Blocked}

\* C15: when every call of report_multiple_results on n result dicts
\* succeeds, it returns a list of exactly n responses whose element i is the
\* response the transport gave to call i, unchanged.
C15_ResponsesInCallOrder ==
    (/\ Done
     /\ call.fn = "report_multiple_results"
     /\ Len(replies) = Len(call.args.results)
     /\ \A j \in DOMAIN replies : replies[j].kind = "result") =>
        /\ ret.kind = "return"
        /\ Len(ret.val) = Len(call.args.results)
        /\ \A i \in DOMAIN call.args.results : ret.val[i] = replies[i].val

C15_Witness ==
    /\ Done
    /\ call.fn = "report_multiple_results"
    /\ Len(call.args.results) = 3
    /\ ret.kind = "return"
    /\ ret.val = <<[id |-> 1], [id |-> 2], [id |-> 2]>>
    /\ replies[1].val = [id |-> 1]

\* C16: the wrapper's translation depends on the lower-cased name only: a
\* name that differs from 'passed' or 'failed' in letter case only is sent
\* with the same code as that name, and 'untested' and 'retest', which have
\* no entry in the map, are sent as 'p' like any unrecognized name.
C16_CaseInsensitiveWithDefault ==
    call.fn = "report_result_friendly" =>
        \A j \in DOMAIN wire :
            LET name == call.args.status
                sent == wire[j].params.status IN
            /\ name \in {Passed, <<"P", "a", "s", "s", "e", "d">>} => sent = "p"
            /\ name \in {Failed, <<"F", "A", "I", "L", "E", "D">>} => sent = "f"
            /\ name = Blocked => sent = "b"
            /\ name \in {Untested, Retest, <<"b", "o", "g", "u", "s">>, <<>>} => sent = "p"
            /\ {Untested, Retest} \cap DOMAIN wrapper.status_map = {}

C16_Witness ==
    /\ call.fn = "report_result_friendly"
    /\ call.args.status = <<"F", "A", "I", "L", "E", "D">>
    /\ Len(wire) = 1
    /\ wire[1].params.status = "f"

\* The first result dict that lacks testcase_id or status; 0 when none does.
C17_FirstBad(results) ==
    IF \E k \in DOMAIN results : ~({"testcase_id", "status"} \subseteq DOMAIN results[k])
    THEN CHOOSE k \in DOMAIN results :
             /\ ~({"testcase_id", "status"} \subseteq DOMAIN results[k])
             /\ \A m \in 1..(k - 1) : {"testcase_id", "status"} \subseteq DOMAIN results[m]
    ELSE 0

\* C17: report_multiple_results looks at one result dict at a time.  A dict
\* without 'notes' is sent with notes = "".  A dict at position k without
\* 'testcase_id' or 'status' makes the operation fail with a KeyError for
\* the missing key when the loop reaches position k: no transport call is
\* made for that dict or a later one, and the calls for the dicts 1..k-1
\* have been issued by then.
C17_LazyValidation ==
    call.fn = "report_multiple_results" =>
        LET results == call.args.results
            k == C17_FirstBad(results) IN
        /\ \A j \in DOMAIN wire :
               wire[j].params.notes =
                   IF "notes" \in DOMAIN results[j] THEN results[j].notes ELSE ""
        /\ k > 0 =>
               /\ Len(wire) <= k - 1
               /\ (Done /\ \A j \in DOMAIN replies : ~FailedReply(replies[j])) =>
                      /\ Len(wire) = k - 1
                      /\ Len(replies) = k - 1
                      /\ ret = Raise([type |-> "KeyError",
                                      args |-> <<IF "testcase_id" \in DOMAIN results[k]
                                                 THEN "status" ELSE "testcase_id">>])

C17_Witness ==
    /\ Done
    /\ call.fn = "report_multiple_results"
    /\ Len(call.args.results) = 3
    /\ C17_FirstBad(call.args.results) = 3
    /\ "notes" \notin DOMAIN call.args.results[2]
    /\ Len(wire) = 2
    /\ wire[2].params.notes = ""
    /\ ret.kind = "raise"
    /\ ret.err.type = "KeyError"

\* C18: the RPC client converts protocol faults only.  A failure of the
\* transport that is no fault ends report_result, get_test_case and
\* get_test_plan with that very exception, never with the fault text, and
\* inside report_multiple_results it ends the loop as a fault does: no
\* further call is issued and the exception reaches the caller.
C18_OnlyFaultsAreConverted ==
    (call.fn \in RpcSingleOps \cup {"report_multiple_results"}) =>
        \A k \in DOMAIN replies :
            replies[k].kind = "error" =>
                /\ k = Len(wire)
                /\ Done =>
                       /\ ret = Raise(replies[k].err)
                       /\ ret.err.type /= "Exception"

C18_Witness ==
    /\ Done
    /\ call.fn = "report_multiple_results"
    /\ Len(call.args.results) = 3
    /\ Len(wire) = 2
    /\ replies[2].kind = "error"
    /\ ret = Raise([type |-> "ProtocolError", errcode |-> 503])

====
